---- MODULE Spec2Model ----
(***************************************************************************)
(* MoLing MCP server: provider registry, configuration merge, sequential   *)
(* fail-fast startup, capability adaptation into the protocol endpoint and *)
(* concurrent, deadline-bounded shutdown.                                  *)
(*                                                                         *)
(* Strings are modelled as sequences of atoms: a provider name is one      *)
(* atom, "," is the separator atom.  Error values are records              *)
(* [kind, by, wrap]: wrap is the list of fmt.Errorf prefixes put in front  *)
(* of the original error (fmt.Errorf with %v builds a new error value).    *)
(***************************************************************************)
EXTENDS Integers, Sequences, FiniteSets, TLC

\* ------------------------------------------------------------------ bounds
\* number of RegisterServ calls explored by the registry specification
MaxRegs == 3
\* number of add-operations performed on providers after their Init returned
MaxLateAdds == 2
\* number of operations invoked on a stand-alone Browser provider
MaxCalls == 3

\* --------------------------------------------------------------- constants
\* the three providers registered by the services package initializer
ServiceNames == {"Browser", "Command", "FileSystem"}
\* factories a name can be registered with
Factories == {"f1", "f2"}
Comma == ","
\* default value of the --module flag
ModuleFlagDefault == <<"all">>
\* values of the --module flag explored
ModuleStrings ==
    { <<"all">>, <<"Browser">>, <<"Command">>,
      <<"Browser", Comma, "FileSystem">> }

VARIABLES
    serviceLists,   \* registry: name -> factory
    regLog,         \* history: the RegisterServ calls made, in order
    Module,         \* mlConfig.Module
    configFile,     \* content of the configuration file on disk
    pidFile,        \* lock file: "absent", "other" (held by another instance), "mine"
    pc,             \* position of mlsCommandFunc
    configJson,     \* parsed configuration document ("nil" or a map)
    remaining,      \* registry entries the range loop of initServices has not visited
    servicesList,   \* initServices' servicesList
    closers,        \* initServices' closers: Name() -> provider
    events,         \* history: per provider, the operations invoked on it
    bcfg,           \* the Browser provider's typed configuration
    caps,           \* per provider, its capability collections
    endpoint,       \* the protocol endpoint's tables
    epCreated,      \* NewMCPServer was called
    serving,        \* the Serve task was started
    ctxCancelled,   \* the shared context was cancelled
    result,         \* the error returned by mlsCommandFunc
    initErr,        \* history: the error returned by the failing provider operation
    failedAt,       \* history: the provider whose startup failed ("" if none)
    lateAdds,       \* number of add-operations made after Init
    sigReceived,    \* a shutdown signal was taken from sigChan
    closeState,     \* per closer key: "idle", "running", "nil", "err", "hung"
    doneClosed,     \* the done channel of shutdownServices is closed
    outcome,        \* "", "graceful" or "forced"
    log,            \* set of log lines written during shutdown
    cfgOp,          \* the last operation on a stand-alone Browser configuration
    cfgPrev,        \* history: that configuration before the operation
    cfgErr,         \* the error the operation returned
    cfgArg,         \* history: the map the operation was given
    timer,          \* the 5 second timer of shutdownServices: "unset", "armed", "fired"
    parent,         \* the parent process: "init" (process 1), "alive" or "gone"
    sigDelivered,   \* history: an interrupt/termination signal was delivered
    svcCtx,         \* per provider, the context its Ctx() returns
    bsCancel,       \* the Browser provider's cancelAlloc/cancelChrome: "nil" or "set"
    closeResult,    \* result of Close on a stand-alone Browser provider
    hasConfig,      \* config command: loadExistingConfig's hasConfig
    fileAtStart,    \* history: the configuration file the config command found
    configData,     \* config command: the sections generated so far
    nameOf,         \* per registry key, the Name() of the provider its factory makes
    reading,        \* the map of a provider a reader task is iterating over
    addCalls,       \* history: per provider, the add-operations it called, in order
    epCalls         \* history: per provider, what loadService handed to the endpoint

vars ==
    << serviceLists, regLog, Module, configFile, pidFile, pc, configJson,
       remaining, servicesList, closers, events, bcfg, caps, endpoint,
       epCreated, serving, ctxCancelled, result, initErr, failedAt, lateAdds,
       sigReceived, closeState, doneClosed, outcome, log, cfgOp, cfgPrev, cfgErr,
       cfgArg, timer, parent, sigDelivered, svcCtx, bsCancel, closeResult,
       hasConfig, fileAtStart, configData, nameOf, reading, addCalls, epCalls >>

configVars == << cfgOp, cfgPrev, cfgErr, cfgArg >>

\* what the server command, the config command and a stand-alone provider leave alone
restVars == << nameOf, reading >>

callVars == << addCalls, epCalls >>

\* what only the stand-alone provider and the config command change
outsideVars == << closeResult, hasConfig, fileAtStart, configData >>

\* ----------------------------------------------------------------- helpers
EmptyMap == [x \in {} |-> ""]

Put(m, k, v) == [x \in (DOMAIN m) \cup {k} |-> IF x = k THEN v ELSE m[x]]

Range(s) == {s[i] : i \in DOMAIN s}

\* error values
NilErr == [kind |-> "nil", by |-> "", wrap |-> <<>>]

NewErr(kind, by) == [kind |-> kind, by |-> by, wrap |-> <<>>]

\* fmt.Errorf("<prefix>: %v", err): a new error value carrying err's text
Errorf(prefix, err) == [kind |-> err.kind, by |-> err.by, wrap |-> <<prefix>> \o err.wrap]

\* ------------------------------------------------- Browser configuration
\* the built-in prompt text
BrowserPromptDefault == "BrowserPromptDefault"

\* os.ReadFile on a prompt file: the files that can be read, and their content
ReadableFiles == {"ok.txt"}

FileContent(f) == "content of " \o f

\* json tag -> struct field of BrowserConfig (the unexported prompt has no tag)
BrowserConfigFields ==
    [ prompt_file            |-> [name |-> "PromptFile",           kind |-> "string"],
      headless               |-> [name |-> "Headless",             kind |-> "bool"],
      timeout                |-> [name |-> "Timeout",              kind |-> "int"],
      proxy                  |-> [name |-> "Proxy",                kind |-> "string"],
      user_agent             |-> [name |-> "UserAgent",            kind |-> "string"],
      default_language       |-> [name |-> "DefaultLanguage",      kind |-> "string"],
      url_timeout            |-> [name |-> "URLTimeout",           kind |-> "int"],
      selector_query_timeout |-> [name |-> "SelectorQueryTimeout", kind |-> "int"],
      data_path              |-> [name |-> "DataPath",             kind |-> "string"],
      browser_data_path      |-> [name |-> "BrowserDataPath",      kind |-> "string"] ]

\* NewBrowserConfig: the default configuration
NewBrowserConfig ==
    [ PromptFile |-> "", prompt |-> "", Headless |-> FALSE, Timeout |-> 30,
      Proxy |-> "", UserAgent |-> "Mozilla/5.0", DefaultLanguage |-> "en-US",
      URLTimeout |-> 10, SelectorQueryTimeout |-> 20,
      DataPath |-> "tmp/.moling/data", BrowserDataPath |-> "" ]

\* the configuration NewBrowserServer gives a new provider
NewBrowserServerConfig ==
    [NewBrowserConfig EXCEPT !.BrowserDataPath = "base/browser", !.DataPath = "base/data"]

\* BrowserConfig.Check: validates cfg and sets its prompt; [err, cfg]
Check(cfg) ==
    LET c1 == [cfg EXCEPT !.prompt = BrowserPromptDefault]
    IN  IF c1.Timeout <= 0
          THEN [err |-> NewErr("timeout must be greater than 0", "Browser"), cfg |-> c1]
        ELSE IF c1.URLTimeout <= 0
          THEN [err |-> NewErr("URL timeout must be greater than 0", "Browser"), cfg |-> c1]
        ELSE IF c1.SelectorQueryTimeout <= 0
          THEN [err |-> NewErr("selector Query timeout must be greater than 0", "Browser"),
                cfg |-> c1]
        ELSE IF c1.PromptFile # ""
          THEN IF c1.PromptFile \in ReadableFiles
                 THEN [err |-> NilErr,
                       cfg |-> [c1 EXCEPT !.prompt = FileContent(c1.PromptFile)]]
                 ELSE [err |-> NewErr("failed to read prompt file", "Browser"), cfg |-> c1]
        ELSE [err |-> NilErr, cfg |-> c1]

\* JSON values as they stand in a JSON text
JSONValue(t, n, s) == [t |-> t, n |-> n, s |-> s]

\* encoding/json.Marshal of one struct field
MarshalField(kind, x) ==
    CASE kind = "string" -> JSONValue("string", 0, x)
      [] kind = "int"    -> JSONValue("number", x, "")
      [] kind = "bool"   -> JSONValue(IF x THEN "true" ELSE "false", 0, "")

\* a buggy variant of Config: numbers are written as JSON strings
Config_quotedNumbers(cfg) ==
    [tag \in DOMAIN BrowserConfigFields |->
        IF BrowserConfigFields[tag].kind = "int"
          THEN JSONValue("string", 0, "number")
          ELSE MarshalField(BrowserConfigFields[tag].kind, cfg[BrowserConfigFields[tag].name])]

\* BrowserServer.Config: json.Marshal of the configuration (exported fields only)
Config(cfg) ==
    [tag \in DOMAIN BrowserConfigFields |->
        MarshalField(BrowserConfigFields[tag].kind, cfg[BrowserConfigFields[tag].name])]

\* encoding/json.Unmarshal into map[string]interface{}: the Go value of a JSON value
\* (every JSON number becomes a float64)
UnmarshalValue(j) ==
    CASE j.t = "string" -> JSONValue("string", 0, j.s)
      [] j.t = "number" -> JSONValue("float64", j.n, "")
      [] j.t = "true"   -> JSONValue("bool", 1, "")
      [] j.t = "false"  -> JSONValue("bool", 0, "")

Unmarshal(text) == [k \in DOMAIN text |-> UnmarshalValue(text[k])]

\* whether a decoded value can be coerced to a field of the declared kind
Convertible(v, kind) ==
    \/ kind = "string" /\ v.t = "string"
    \/ kind = "int"    /\ v.t = "float64"
    \/ kind = "bool"   /\ v.t = "bool"

ConvertValue(v, kind) ==
    CASE kind = "string" -> v.s
      [] kind = "int"    -> v.n
      [] kind = "bool"   -> (v.n = 1)

RECURSIVE ApplyFields(_, _, _)
ApplyFields(cfg, m, keys) ==
    IF keys = {} THEN cfg
    ELSE LET k == CHOOSE x \in keys : TRUE
             f == BrowserConfigFields[k]
         IN  ApplyFields([cfg EXCEPT ![f.name] = ConvertValue(m[k], f.kind)], m, keys \ {k})

\* utils.MergeJSONToStruct: the possible results [err, cfg] of merging map m onto
\* cfg.  Keys without a field are ignored, fields without a key keep their value; a
\* value that cannot be coerced aborts the merge with an error, the fields visited
\* before it (map order) having been assigned.
MergeJSONToStruct(cfg, m) ==
    LET known == (DOMAIN m) \cap (DOMAIN BrowserConfigFields)
        good  == {k \in known : Convertible(m[k], BrowserConfigFields[k].kind)}
    IN  IF good = known
          THEN {[err |-> NilErr, cfg |-> ApplyFields(cfg, m, known)]}
          ELSE {[err |-> NewErr("type mismatch", "Browser"), cfg |-> ApplyFields(cfg, m, ks)]
                 : ks \in SUBSET good}

\* a buggy variant of LoadConfig: an empty map returns at once, without validation
LoadConfig_skipEmpty(cfg, m) ==
    IF m = EmptyMap
      THEN {[err |-> NilErr, cfg |-> cfg]}
      ELSE { IF r.err # NilErr THEN r ELSE Check(r.cfg) : r \in MergeJSONToStruct(cfg, m) }

\* BrowserServer.LoadConfig: merge, then validate; the possible results [err, cfg]
LoadConfig(cfg, m) ==
    { IF r.err # NilErr THEN r ELSE Check(r.cfg) : r \in MergeJSONToStruct(cfg, m) }

\* ------------------------------------------------------ module selection
RECURSIVE Split(_, _)
\* strings.Split(s, sep): the pieces of s between separators
Split(s, sep) ==
    IF \A i \in DOMAIN s : s[i] # sep
      THEN <<s>>
      ELSE LET i == CHOOSE j \in DOMAIN s : s[j] = sep /\ \A k \in 1..(j - 1) : s[k] # sep
           IN  <<SubSeq(s, 1, i - 1)>> \o Split(SubSeq(s, i + 1, Len(s)), sep)

\* utils.StringInSlice
StringInSlice(str, list) == \E i \in DOMAIN list : list[i] = str

\* initServices: the module list built from mlConfig.Module
ModuleList(module) == IF module # <<"Browser">> THEN Split(module, Comma) ELSE <<>>

\* initServices: whether the loop skips registry entry n
SkipModule(n, module) ==
    /\ Len(ModuleList(module)) > 0
    /\ ~StringInSlice(<<n>>, ModuleList(module))

\* ------------------------------------------------------------ providers
\* Service.Name() of the provider registered under n
Name(n) == nameOf[n]

EmptyCaps ==
    [resources |-> EmptyMap, templates |-> EmptyMap, tools |-> <<>>,
     notifications |-> EmptyMap, prompts |-> <<>>]

Entry(name, h) == [name |-> name, h |-> h]

\* the capabilities a provider's Init adds to itself
InitCaps(n) ==
    IF n = "Browser"
      THEN [EmptyCaps EXCEPT
              !.prompts = <<Entry("browser_prompt", "handlePrompt")>>,
              !.tools = << Entry("browser_navigate", "handleNavigate"),
                           Entry("browser_screenshot", "handleScreenshot"),
                           Entry("browser_click", "handleClick"),
                           Entry("browser_fill", "handleFill"),
                           Entry("browser_select", "handleSelect"),
                           Entry("browser_hover", "handleHover"),
                           Entry("browser_evaluate", "handleEvaluate"),
                           Entry("browser_debug_enable", "handleDebugEnable"),
                           Entry("browser_set_breakpoint", "handleSetBreakpoint"),
                           Entry("browser_remove_breakpoint", "handleRemoveBreakpoint"),
                           Entry("browser_pause", "handlePause"),
                           Entry("browser_resume", "handleResume"),
                           Entry("browser_get_callstack", "handleGetCallstack") >>]
      ELSE [EmptyCaps EXCEPT
              !.prompts = <<Entry(n \o "_prompt", "handlePrompt")>>,
              !.tools = <<Entry(n \o "_tool", "handleTool")>>]

\* BrowserServer.Init, lines 86-117: initBrowser and CreateDirectory may fail (iErr);
\* past them the provider's Context is replaced by a chromedp context made from
\* context.Background(), and cancelAlloc/cancelChrome are set
BrowserServerInit(ctx, cancel, iErr) ==
    IF iErr # NilErr
      THEN [ctx |-> ctx, cancel |-> cancel]
      ELSE [ctx |-> "background", cancel |-> "set"]

\* the context and cancel functions of the provider registered as n once
\* initSingleService is over: NewMLService stores the context given to the factory
ProviderAfterInit(n, fErr, ev, iErr) ==
    IF fErr # NilErr
      THEN [ctx |-> "none", cancel |-> "nil"]
    ELSE IF n = "Browser" /\ "Init" \in Range(ev)
      THEN BrowserServerInit("shared", "nil", iErr)
    ELSE [ctx |-> "shared", cancel |-> "nil"]

\* the names of a sequence of entries
Names(es) == [i \in DOMAIN es |-> es[i].name]

\* the add-operations Init of the provider registered as n calls: AddPrompt, then
\* one AddTool per tool (browser.go lines 134-276)
InitCalls(n) ==
    [i \in DOMAIN InitCaps(n).prompts |-> <<"AddPrompt", InitCaps(n).prompts[i].name>>]
      \o [i \in DOMAIN InitCaps(n).tools |-> <<"AddTool", InitCaps(n).tools[i].name>>]

\* ------------------------------------------------ configuration document
MapSection(m) == [t |-> "map", m |-> m]

ScalarSection == [t |-> "float64", m |-> EmptyMap]

ConfigDoc(state, doc) == [state |-> state, doc |-> doc]

\* contents of the configuration file explored
ConfigFiles ==
    { ConfigDoc("missing", EmptyMap),
      ConfigDoc("badjson", EmptyMap),
      ConfigDoc("ok", EmptyMap),
      ConfigDoc("ok", "Browser" :> MapSection(EmptyMap)),
      ConfigDoc("ok", "Browser" :> MapSection("timeout" :> JSONValue("float64", 0, ""))),
      ConfigDoc("ok", "Browser" :> ScalarSection),
      ConfigDoc("ok", "Browser" :> MapSection("prompt_file" :> JSONValue("string", 0, "ok.txt"))
                      @@ "Command" :> MapSection(EmptyMap)) }

\* initSingleService: whether LoadConfig is invoked on the provider registered as n
HasSection(cj, n) ==
    /\ ~cj.isNil
    /\ n \in DOMAIN cj.doc
    /\ cj.doc[n].t = "map"

\* the possible results [err, cfg] of provider n's LoadConfig on its section
LoadConfigResults(n, cfg, m) ==
    IF n = "Browser"
      THEN LoadConfig(cfg, m)
      ELSE {[err |-> NilErr, cfg |-> cfg], [err |-> NewErr("LoadConfig", n), cfg |-> cfg]}

\* a buggy variant of initSingleService: Init is invoked before LoadConfig
initSingleService_initFirst(n, cj, fErr, lc, iErr) ==
    IF fErr # NilErr
      THEN [err |-> Errorf("failed to create service", fErr),
            ev |-> <<"factory">>, cfg |-> NewBrowserConfig]
    ELSE IF iErr # NilErr
      THEN [err |-> Errorf("failed to initialize service", iErr),
            ev |-> <<"factory", "Init">>, cfg |-> NewBrowserServerConfig]
    ELSE IF HasSection(cj, n)
      THEN [err |-> IF lc.err # NilErr
                      THEN Errorf("failed to load config for service", lc.err)
                      ELSE NilErr,
            ev |-> <<"factory", "Init", "LoadConfig">>, cfg |-> lc.cfg]
    ELSE [err |-> NilErr, ev |-> <<"factory", "Init">>, cfg |-> NewBrowserServerConfig]

\* a buggy variant of initSingleService: LoadConfig is invoked on every provider
initSingleService_alwaysLoad(n, cj, fErr, lc, iErr) ==
    IF fErr # NilErr
      THEN [err |-> Errorf("failed to create service", fErr),
            ev |-> <<"factory">>, cfg |-> NewBrowserConfig]
    ELSE IF lc.err # NilErr
      THEN [err |-> Errorf("failed to load config for service", lc.err),
            ev |-> <<"factory", "LoadConfig">>, cfg |-> lc.cfg]
    ELSE IF iErr # NilErr
      THEN [err |-> Errorf("failed to initialize service", iErr),
            ev |-> <<"factory", "LoadConfig", "Init">>, cfg |-> lc.cfg]
    ELSE [err |-> NilErr, ev |-> <<"factory", "LoadConfig", "Init">>, cfg |-> lc.cfg]

\* initSingleService(ctx, n, factory, cj): [err, ev, cfg], given the error fErr of the
\* factory, the result lc of LoadConfig and the error iErr of Init
initSingleService(n, cj, fErr, lc, iErr) ==
    IF fErr # NilErr
      THEN [err |-> Errorf("failed to create service", fErr),
            ev |-> <<"factory">>, cfg |-> NewBrowserConfig]
    ELSE IF HasSection(cj, n) /\ lc.err # NilErr
      THEN [err |-> Errorf("failed to load config for service", lc.err),
            ev |-> <<"factory", "LoadConfig">>, cfg |-> lc.cfg]
    ELSE LET ev0 == IF HasSection(cj, n) THEN <<"factory", "LoadConfig">> ELSE <<"factory">>
             cfg0 == IF HasSection(cj, n) THEN lc.cfg ELSE NewBrowserServerConfig
         IN  IF iErr # NilErr
               THEN [err |-> Errorf("failed to initialize service", iErr),
                     ev |-> ev0 \o <<"Init">>, cfg |-> cfg0]
               ELSE [err |-> NilErr, ev |-> ev0 \o <<"Init">>, cfg |-> cfg0]

\* ----------------------------------------------------------------- Init
\* the built-in providers report the name they are registered under
BuiltinNames == [n \in ServiceNames |-> n]

EmptyEndpoint ==
    [resources |-> EmptyMap, templates |-> EmptyMap, tools |-> EmptyMap,
     notifications |-> EmptyMap, prompts |-> EmptyMap]

\* no task is iterating over a collection of a provider
NoRead == [n |-> "", kind |-> "", len |-> 0]

InitCommon ==
    /\ regLog = <<>>
    /\ pc = "start"
    /\ configJson = [isNil |-> TRUE, doc |-> EmptyMap]
    /\ remaining = {}
    /\ servicesList = <<>>
    /\ closers = EmptyMap
    /\ events = [n \in ServiceNames |-> <<>>]
    /\ caps = [n \in ServiceNames |-> EmptyCaps]
    /\ endpoint = EmptyEndpoint
    /\ epCreated = FALSE
    /\ serving = FALSE
    /\ ctxCancelled = FALSE
    /\ result = NilErr
    /\ initErr = NilErr
    /\ failedAt = ""
    /\ lateAdds = 0
    /\ sigReceived = FALSE
    /\ closeState = EmptyMap
    /\ doneClosed = FALSE
    /\ outcome = ""
    /\ log = {}
    /\ cfgOp = ""
    /\ cfgPrev = NewBrowserConfig
    /\ cfgErr = NilErr
    /\ cfgArg = EmptyMap
    /\ timer = "unset"
    /\ sigDelivered = FALSE
    /\ svcCtx = [n \in ServiceNames |-> "none"]
    /\ bsCancel = "nil"
    /\ closeResult = ""
    /\ hasConfig = FALSE
    /\ fileAtStart = ConfigDoc("missing", EmptyMap)
    /\ configData = EmptyMap
    /\ reading = NoRead
    /\ addCalls = [n \in ServiceNames |-> <<>>]
    /\ epCalls = [n \in ServiceNames |-> [tools |-> <<>>, prompts |-> <<>>, at |-> 0]]

\* the server command starts with the registry filled by the package initializers
Init ==
    /\ InitCommon
    /\ nameOf = BuiltinNames
    /\ bcfg = NewBrowserConfig
    /\ parent \in {"init", "alive"}
    /\ \E S \in SUBSET ServiceNames : serviceLists = [n \in S |-> "f1"]
    /\ Module \in ModuleStrings
    /\ configFile \in ConfigFiles
    /\ pidFile \in {"absent", "other"}

\* --------------------------------------------------------------- registry
\* a buggy variant of RegisterServ: an existing entry is kept
RegisterServ_keepFirst(n, f) ==
    /\ pc = "start"
    /\ Len(regLog) < MaxRegs
    /\ serviceLists' = IF n \in DOMAIN serviceLists THEN serviceLists ELSE Put(serviceLists, n, f)
    /\ regLog' = Append(regLog, <<n, f>>)
    /\ UNCHANGED << Module, configFile, pidFile, pc, configJson, remaining, servicesList,
                    closers, events, bcfg, caps, endpoint, epCreated, serving,
                    ctxCancelled, result, initErr, failedAt, lateAdds, sigReceived,
                    closeState, doneClosed, outcome, log, timer, parent, sigDelivered,
                    svcCtx, bsCancel >>
    /\ UNCHANGED configVars
    /\ UNCHANGED restVars
    /\ UNCHANGED callVars
    /\ UNCHANGED outsideVars

\* RegisterServ(n, f): serviceLists[n] = f
RegisterServ(n, f) ==
    /\ pc = "start"
    /\ Len(regLog) < MaxRegs
    /\ serviceLists' = Put(serviceLists, n, f)
    /\ regLog' = Append(regLog, <<n, f>>)
    /\ UNCHANGED << Module, configFile, pidFile, pc, configJson, remaining, servicesList,
                    closers, events, bcfg, caps, endpoint, epCreated, serving,
                    ctxCancelled, result, initErr, failedAt, lateAdds, sigReceived,
                    closeState, doneClosed, outcome, log, timer, parent, sigDelivered,
                    svcCtx, bsCancel >>
    /\ UNCHANGED configVars
    /\ UNCHANGED restVars
    /\ UNCHANGED callVars
    /\ UNCHANGED outsideVars

\* ServiceList(): the registry itself
ServiceList == serviceLists

\* ---------------------------------------------------------------- startup
\* utils.CreatePIDFile: fails when another instance holds the lock file
CreatePIDFile(pf) ==
    IF pf = "other"
      THEN [err |-> NewErr("pid file is locked", ""), file |-> pf]
      ELSE [err |-> NilErr, file |-> "mine"]

\* utils.RemovePIDFile: removes the lock file
RemovePIDFile(pf) ==
    IF pf = "absent"
      THEN [err |-> NewErr("failed to remove pid file", ""), file |-> pf]
      ELSE [err |-> NilErr, file |-> "absent"]

startupVars ==
    << configJson, remaining, servicesList, closers, events, bcfg, caps, endpoint,
       epCreated, serving, ctxCancelled, initErr, failedAt, svcCtx, bsCancel >>

shutdownVars ==
    << sigReceived, closeState, doneClosed, outcome, log, timer, sigDelivered, parent >>

\* a buggy variant of CheckRunningInstance: the error of CreatePIDFile is ignored
CheckRunningInstance_ignore ==
    /\ pc = "start"
    /\ pidFile' = CreatePIDFile(pidFile).file
    /\ pc' = "loadConfigFile"
    /\ UNCHANGED << serviceLists, regLog, Module, configFile, lateAdds, result >>
    /\ UNCHANGED startupVars
    /\ UNCHANGED shutdownVars
    /\ UNCHANGED configVars
    /\ UNCHANGED restVars
    /\ UNCHANGED callVars
    /\ UNCHANGED outsideVars

\* mlsCommandFunc, lines 98-102: checkRunningInstance
CheckRunningInstance ==
    /\ pc = "start"
    /\ LET r == CreatePIDFile(pidFile)
       IN  /\ pidFile' = r.file
           /\ IF r.err # NilErr
                THEN pc' = "returned" /\ result' = r.err
                ELSE pc' = "loadConfigFile" /\ result' = result
    /\ UNCHANGED << serviceLists, regLog, Module, configFile, lateAdds >>
    /\ UNCHANGED startupVars
    /\ UNCHANGED shutdownVars
    /\ UNCHANGED configVars
    /\ UNCHANGED restVars
    /\ UNCHANGED callVars
    /\ UNCHANGED outsideVars

\* a buggy variant of LoadConfigFile: the lock file is removed when the
\* configuration file cannot be parsed
LoadConfigFile_removeLock ==
    /\ pc = "loadConfigFile"
    /\ IF configFile.state = "badjson"
         THEN /\ pc' = "returned"
              /\ result' = Errorf("Error unmarshaling JSON", NewErr("json", ""))
              /\ pidFile' = RemovePIDFile(pidFile).file
              /\ UNCHANGED << configJson, remaining >>
         ELSE /\ pc' = "initServices"
              /\ configJson' = IF configFile.state = "missing"
                                 THEN [isNil |-> TRUE, doc |-> EmptyMap]
                                 ELSE [isNil |-> FALSE, doc |-> configFile.doc]
              /\ remaining' = DOMAIN ServiceList
              /\ result' = result
              /\ pidFile' = pidFile
    /\ UNCHANGED << serviceLists, regLog, Module, configFile, lateAdds,
                    servicesList, closers, events, bcfg, caps, endpoint, epCreated,
                    serving, ctxCancelled, initErr, failedAt, svcCtx, bsCancel >>
    /\ UNCHANGED shutdownVars
    /\ UNCHANGED configVars
    /\ UNCHANGED restVars
    /\ UNCHANGED callVars
    /\ UNCHANGED outsideVars

\* mlsCommandFunc, lines 104-114: loadConfigFile, then the shared context is created
LoadConfigFile ==
    /\ pc = "loadConfigFile"
    /\ IF configFile.state = "badjson"
         THEN /\ pc' = "returned"
              /\ result' = Errorf("Error unmarshaling JSON", NewErr("json", ""))
              /\ UNCHANGED << configJson, remaining >>
         ELSE /\ pc' = "initServices"
              /\ configJson' = IF configFile.state = "missing"
                                 THEN [isNil |-> TRUE, doc |-> EmptyMap]
                                 ELSE [isNil |-> FALSE, doc |-> configFile.doc]
              /\ remaining' = DOMAIN ServiceList
              /\ result' = result
    /\ UNCHANGED << serviceLists, regLog, Module, configFile, pidFile, lateAdds,
                    servicesList, closers, events, bcfg, caps, endpoint, epCreated,
                    serving, ctxCancelled, initErr, failedAt, svcCtx, bsCancel >>
    /\ UNCHANGED shutdownVars
    /\ UNCHANGED configVars
    /\ UNCHANGED restVars
    /\ UNCHANGED callVars
    /\ UNCHANGED outsideVars

\* a buggy variant of InitServicesFail: the closers collected so far are kept and run
\* by the shutdown that follows
InitServicesFail_shutdown(n, err) ==
    /\ pc' = "waiting"
    /\ result' = err
    /\ ctxCancelled' = TRUE
    /\ servicesList' = servicesList
    /\ closers' = closers

\* a buggy variant of InitServicesFail: the error is logged and the loop goes on
InitServicesFail_continue(n, err) ==
    /\ pc' = pc
    /\ result' = result
    /\ ctxCancelled' = ctxCancelled
    /\ UNCHANGED << servicesList, closers >>

\* a buggy variant of InitServicesFail: the error is wrapped once more on the way up
InitServicesFail_rewrap(n, err) ==
    /\ pc' = "returned"
    /\ result' = Errorf("startup failed", err)
    /\ ctxCancelled' = TRUE
    /\ servicesList' = <<>>
    /\ closers' = EmptyMap

\* initServices lines 319-322 and mlsCommandFunc lines 118-121: the first failing
\* provider ends the loop; the context is cancelled and the error returned
InitServicesFail(n, err) ==
    /\ pc' = "returned"
    /\ result' = err
    /\ ctxCancelled' = TRUE
    /\ servicesList' = <<>>
    /\ closers' = EmptyMap

\* one iteration of the range loop of initServices over the registry
InitServicesStep ==
    /\ pc = "initServices"
    /\ \E n \in remaining :
         /\ remaining' = remaining \ {n}
         /\ IF SkipModule(n, Module)
              THEN UNCHANGED << pc, result, ctxCancelled, servicesList, closers, events,
                                bcfg, caps, initErr, failedAt, svcCtx, bsCancel,
                                addCalls >>
              ELSE \E fErr \in {NilErr, NewErr("factory", n)},
                      iErr \in {NilErr, NewErr("Init", n)},
                      lc \in LoadConfigResults(n, NewBrowserServerConfig,
                               IF HasSection(configJson, n)
                                 THEN configJson.doc[n].m ELSE EmptyMap) :
                     LET r == initSingleService(n, configJson, fErr, lc, iErr)
                         raw == IF fErr # NilErr THEN fErr
                                ELSE IF HasSection(configJson, n) /\ lc.err # NilErr
                                  THEN lc.err
                                ELSE iErr
                     IN  /\ events' = [events EXCEPT ![n] = @ \o r.ev]
                         /\ bcfg' = IF n = "Browser" /\ fErr = NilErr THEN r.cfg ELSE bcfg
                         /\ svcCtx' = [svcCtx EXCEPT
                                         ![n] = ProviderAfterInit(n, fErr, r.ev, iErr).ctx]
                         /\ bsCancel' = IF n = "Browser"
                                          THEN ProviderAfterInit(n, fErr, r.ev, iErr).cancel
                                          ELSE bsCancel
                         /\ IF r.err # NilErr
                              THEN /\ InitServicesFail(n, r.err)
                                   /\ initErr' = raw
                                   /\ failedAt' = n
                                   /\ caps' = caps
                                   /\ addCalls' = addCalls
                              ELSE /\ servicesList' = Append(servicesList, n)
                                   /\ closers' = Put(closers, Name(n), n)
                                   /\ caps' = [caps EXCEPT ![n] = InitCaps(n)]
                                   /\ addCalls' = [addCalls EXCEPT ![n] = InitCalls(n)]
                                   /\ UNCHANGED << pc, result, ctxCancelled, initErr,
                                                   failedAt >>
    /\ UNCHANGED << serviceLists, regLog, Module, configFile, pidFile, configJson,
                    endpoint, epCreated, serving, lateAdds >>
    /\ UNCHANGED shutdownVars
    /\ UNCHANGED configVars
    /\ UNCHANGED restVars
    /\ UNCHANGED epCalls
    /\ UNCHANGED outsideVars

\* ---------------------------------------------------------------- adapter
\* the reverse of a sequence
Reverse(s) == [i \in DOMAIN s |-> s[Len(s) + 1 - i]]

\* a buggy variant of loadServiceCalls: the tools are handed over last-first
loadServiceCalls_reversed(c, at) ==
    [tools |-> Reverse(Names(c.tools)), prompts |-> Names(c.prompts), at |-> at]

\* MoLingServer.loadService lines 96-108: the tools passed to AddTools and the
\* prompts passed, one by one, to AddPrompt (at: the number of add-operations the
\* provider had made by then)
loadServiceCalls(c, at) ==
    [tools |-> Names(c.tools), prompts |-> Names(c.prompts), at |-> at]

\* the endpoint's map-backed tables after adding every entry of map m
AddAll(table, m) ==
    [k \in (DOMAIN table) \cup (DOMAIN m) |-> IF k \in DOMAIN m THEN m[k] ELSE table[k]]

RECURSIVE AddEntries(_, _)
\* the endpoint's table after adding the entries of sequence es in order
AddEntries(table, es) ==
    IF es = <<>> THEN table
    ELSE AddEntries(Put(table, Head(es).name, Head(es).h), Tail(es))

\* MoLingServer.loadService: copies the provider's collections c into the endpoint
loadService(ep, c) ==
    [ resources     |-> AddAll(ep.resources, c.resources),
      templates     |-> AddAll(ep.templates, c.templates),
      tools         |-> AddEntries(ep.tools, c.tools),
      notifications |-> AddAll(ep.notifications, c.notifications),
      prompts       |-> AddEntries(ep.prompts, c.prompts) ]

RECURSIVE LoadServices(_, _, _)
\* MoLingServer.init: loadService for every provider of the list, in order
LoadServices(ep, srvs, cs) ==
    IF srvs = <<>> THEN ep
    ELSE LoadServices(loadService(ep, cs[Head(srvs)]), Tail(srvs), cs)

\* a buggy variant of StartMoLingServer: the server is started while initServices
\* still has providers to initialize
StartMoLingServer_early ==
    /\ pc = "initServices"
    /\ epCreated' = TRUE
    /\ endpoint' = LoadServices(EmptyEndpoint, servicesList, caps)
    /\ events' = [n \in ServiceNames |->
                    IF n \in Range(servicesList)
                      THEN Append(events[n], "loadService") ELSE events[n]]
    /\ epCalls' = [n \in ServiceNames |->
                     IF n \in Range(servicesList)
                       THEN loadServiceCalls(caps[n], Len(addCalls[n])) ELSE epCalls[n]]
    /\ serving' = TRUE
    /\ pc' = "waiting"
    /\ UNCHANGED << serviceLists, regLog, Module, configFile, pidFile, configJson,
                    remaining, servicesList, closers, bcfg, caps, ctxCancelled,
                    result, initErr, failedAt, lateAdds, svcCtx, bsCancel, addCalls >>
    /\ UNCHANGED shutdownVars
    /\ UNCHANGED configVars
    /\ UNCHANGED restVars
    /\ UNCHANGED outsideVars

\* mlsCommandFunc lines 123-128: startMoLingServer once the loop of initServices is
\* over: NewMoLingServer adapts every provider, then Serve runs in its own task
StartMoLingServer ==
    /\ pc = "initServices"
    /\ remaining = {}
    /\ epCreated' = TRUE
    /\ endpoint' = LoadServices(EmptyEndpoint, servicesList, caps)
    /\ events' = [n \in ServiceNames |->
                    IF n \in Range(servicesList)
                      THEN Append(events[n], "loadService") ELSE events[n]]
    /\ epCalls' = [n \in ServiceNames |->
                     IF n \in Range(servicesList)
                       THEN loadServiceCalls(caps[n], Len(addCalls[n])) ELSE epCalls[n]]
    /\ serving' = TRUE
    /\ pc' = "waiting"
    /\ UNCHANGED << serviceLists, regLog, Module, configFile, pidFile, configJson,
                    remaining, servicesList, closers, bcfg, caps, ctxCancelled,
                    result, initErr, failedAt, lateAdds, svcCtx, bsCancel, addCalls >>
    /\ UNCHANGED shutdownVars
    /\ UNCHANGED configVars
    /\ UNCHANGED restVars
    /\ UNCHANGED outsideVars

\* ------------------------------------------- add-operations after Init
LateEntry == Entry("late", "lateHandler")

\* the providers whose Init has returned and whose process still runs
CanAdd(n) ==
    /\ pc \in {"initServices", "waiting"}
    /\ ~sigReceived
    /\ n \in Range(servicesList)
    /\ lateAdds < MaxLateAdds

AddFrame ==
    /\ lateAdds' = lateAdds + 1
    /\ UNCHANGED << serviceLists, regLog, Module, configFile, pidFile, pc, configJson,
                    remaining, servicesList, closers, events, bcfg, endpoint,
                    epCreated, serving, ctxCancelled, result, initErr, failedAt,
                    svcCtx, bsCancel, epCalls >>
    /\ UNCHANGED shutdownVars
    /\ UNCHANGED configVars
    /\ UNCHANGED restVars
    /\ UNCHANGED outsideVars

\* MLService.AddResource
AddResource ==
    \E n \in ServiceNames :
        /\ CanAdd(n)
        /\ caps' = [caps EXCEPT ![n].resources = Put(@, LateEntry.name, LateEntry.h)]
        /\ addCalls' = [addCalls EXCEPT ![n] = Append(@, <<"AddResource", LateEntry.name>>)]
        /\ AddFrame

\* MLService.AddResourceTemplate
AddResourceTemplate ==
    \E n \in ServiceNames :
        /\ CanAdd(n)
        /\ caps' = [caps EXCEPT ![n].templates = Put(@, LateEntry.name, LateEntry.h)]
        /\ addCalls' = [addCalls EXCEPT ![n] = Append(@, <<"AddResourceTemplate", LateEntry.name>>)]
        /\ AddFrame

\* MLService.AddPrompt
AddPrompt ==
    \E n \in ServiceNames :
        /\ CanAdd(n)
        /\ caps' = [caps EXCEPT ![n].prompts = Append(@, LateEntry)]
        /\ addCalls' = [addCalls EXCEPT ![n] = Append(@, <<"AddPrompt", LateEntry.name>>)]
        /\ AddFrame

\* a buggy variant of AddTool: the endpoint shares the provider's tool list
AddTool_live ==
    \E n \in ServiceNames :
        /\ CanAdd(n)
        /\ caps' = [caps EXCEPT ![n].tools = Append(@, LateEntry)]
        /\ addCalls' = [addCalls EXCEPT ![n] = Append(@, <<"AddTool", LateEntry.name>>)]
        /\ endpoint' = IF epCreated
                         THEN [endpoint EXCEPT !.tools = Put(@, LateEntry.name, LateEntry.h)]
                         ELSE endpoint
        /\ lateAdds' = lateAdds + 1
        /\ UNCHANGED << serviceLists, regLog, Module, configFile, pidFile, pc, configJson,
                        remaining, servicesList, closers, events, bcfg,
                        epCreated, serving, ctxCancelled, result, initErr, failedAt,
                        svcCtx, bsCancel, epCalls >>
        /\ UNCHANGED shutdownVars
        /\ UNCHANGED configVars
        /\ UNCHANGED restVars
        /\ UNCHANGED outsideVars

\* MLService.AddTool
AddTool ==
    \E n \in ServiceNames :
        /\ CanAdd(n)
        /\ caps' = [caps EXCEPT ![n].tools = Append(@, LateEntry)]
        /\ addCalls' = [addCalls EXCEPT ![n] = Append(@, <<"AddTool", LateEntry.name>>)]
        /\ AddFrame

\* MLService.AddNotificationHandler
AddNotificationHandler ==
    \E n \in ServiceNames :
        /\ CanAdd(n)
        /\ caps' = [caps EXCEPT ![n].notifications = Put(@, LateEntry.name, LateEntry.h)]
        /\ addCalls' = [addCalls EXCEPT ![n] = Append(@, <<"AddNotificationHandler", LateEntry.name>>)]
        /\ AddFrame

\* --------------------------------------------------------------- shutdown
frozenVars ==
    << serviceLists, regLog, Module, configFile, configJson, remaining, servicesList,
       closers, bcfg, caps, endpoint, epCreated, serving, initErr, failedAt, lateAdds,
       svcCtx, bsCancel, parent >>

\* os.Getppid()
Getppid == IF parent = "alive" THEN 2 ELSE 1

\* a buggy variant of ServeReturn: the return of Serve is treated as a shutdown signal
ServeReturn_shutdown ==
    /\ pc \in {"waiting", "select", "removePid"}
    /\ serving
    /\ serving' = FALSE
    /\ sigReceived' = TRUE
    /\ \E e \in {"nil", "error"} :
          log' = IF e = "nil" THEN log ELSE log \cup {<<"failed to start server", "">>}
    /\ UNCHANGED << serviceLists, regLog, Module, configFile, pidFile, pc, lateAdds, result >>
    /\ UNCHANGED << configJson, remaining, servicesList, closers, events, bcfg, caps,
                    endpoint, epCreated, ctxCancelled, initErr, failedAt, svcCtx, bsCancel >>
    /\ UNCHANGED << closeState, doneClosed, outcome, timer, sigDelivered, parent >>
    /\ UNCHANGED configVars
    /\ UNCHANGED restVars
    /\ UNCHANGED callVars
    /\ UNCHANGED outsideVars

\* the goroutine of startMoLingServer, lines 167-171: Serve returns (the transport
\* ended or failed); an error is logged and the goroutine ends, nothing else is told
ServeReturn ==
    /\ pc \in {"waiting", "select", "removePid"}
    /\ serving
    /\ serving' = FALSE
    /\ \E e \in {"nil", "error"} :
          log' = IF e = "nil" THEN log ELSE log \cup {<<"failed to start server", "">>}
    /\ UNCHANGED << serviceLists, regLog, Module, configFile, pidFile, pc, lateAdds, result >>
    /\ UNCHANGED << configJson, remaining, servicesList, closers, events, bcfg, caps,
                    endpoint, epCreated, ctxCancelled, initErr, failedAt, svcCtx, bsCancel >>
    /\ UNCHANGED << sigReceived, closeState, doneClosed, outcome, timer, sigDelivered,
                    parent >>
    /\ UNCHANGED configVars
    /\ UNCHANGED restVars
    /\ UNCHANGED callVars
    /\ UNCHANGED outsideVars

\* the parent process exits and the process is re-parented to process 1 (an exit
\* during startup is seen by the first poll just the same)
ParentExit ==
    /\ pc = "waiting"
    /\ ~sigReceived
    /\ parent = "alive"
    /\ parent' = "gone"
    /\ UNCHANGED << serviceLists, regLog, Module, configFile, pidFile, pc, lateAdds, result >>
    /\ UNCHANGED startupVars
    /\ UNCHANGED << sigReceived, closeState, doneClosed, outcome, log, timer, sigDelivered >>
    /\ UNCHANGED configVars
    /\ UNCHANGED restVars
    /\ UNCHANGED callVars
    /\ UNCHANGED outsideVars

\* monitorParentProcess, lines 203-215: a poll finds os.Getppid() = 1 and puts SIGTERM
\* into sigChan; waitForShutdownSignal takes it (line 186)
MonitorParentProcess ==
    /\ pc = "waiting"
    /\ ~sigReceived
    /\ Getppid = 1
    /\ sigReceived' = TRUE
    /\ log' = log \cup {<<"parent process exited", "">>}
    /\ UNCHANGED << pidFile, pc, events, ctxCancelled, result, closeState, doneClosed,
                    outcome, timer, sigDelivered >>
    /\ UNCHANGED frozenVars
    /\ UNCHANGED configVars
    /\ UNCHANGED restVars
    /\ UNCHANGED callVars
    /\ UNCHANGED outsideVars

\* SIGINT or SIGTERM is delivered into sigChan; waitForShutdownSignal takes it
\* (lines 178-186)
ReceiveSignal ==
    /\ pc = "waiting"
    /\ ~sigReceived
    /\ sigReceived' = TRUE
    /\ sigDelivered' = TRUE
    /\ UNCHANGED << pidFile, pc, events, ctxCancelled, result, closeState, doneClosed,
                    outcome, log, timer >>
    /\ UNCHANGED frozenVars
    /\ UNCHANGED configVars
    /\ UNCHANGED restVars
    /\ UNCHANGED callVars
    /\ UNCHANGED outsideVars

\* a buggy variant of ShutdownStart: two tasks are started per closer
ShutdownStart_closeTwice ==
    /\ pc = "waiting"
    /\ sigReceived
    /\ closeState' = [k \in DOMAIN closers |-> "running"]
    /\ events' = [n \in ServiceNames |->
                    IF \E k \in DOMAIN closers : closers[k] = n
                      THEN events[n] \o <<"Close", "Close">> ELSE events[n]]
    /\ timer' = "armed"
    /\ pc' = "select"
    /\ UNCHANGED << pidFile, ctxCancelled, result, sigReceived, doneClosed, outcome, log,
                    sigDelivered >>
    /\ UNCHANGED frozenVars
    /\ UNCHANGED configVars
    /\ UNCHANGED restVars
    /\ UNCHANGED callVars
    /\ UNCHANGED outsideVars

\* a buggy variant of ShutdownStart: the context is cancelled before the closers run
ShutdownStart_cancelFirst ==
    /\ pc = "waiting"
    /\ sigReceived
    /\ closeState' = [k \in DOMAIN closers |-> "running"]
    /\ events' = [n \in ServiceNames |->
                    IF \E k \in DOMAIN closers : closers[k] = n
                      THEN Append(events[n], "Close") ELSE events[n]]
    /\ timer' = "armed"
    /\ pc' = "select"
    /\ ctxCancelled' = TRUE
    /\ UNCHANGED << pidFile, result, sigReceived, doneClosed, outcome, log, sigDelivered >>
    /\ UNCHANGED frozenVars
    /\ UNCHANGED configVars
    /\ UNCHANGED restVars
    /\ UNCHANGED callVars
    /\ UNCHANGED outsideVars

\* shutdownServices lines 219-239: one task per closer is started; each calls Close
ShutdownStart ==
    /\ pc = "waiting"
    /\ sigReceived
    /\ closeState' = [k \in DOMAIN closers |-> "running"]
    /\ events' = [n \in ServiceNames |->
                    IF \E k \in DOMAIN closers : closers[k] = n
                      THEN Append(events[n], "Close") ELSE events[n]]
    /\ timer' = "armed"
    /\ pc' = "select"
    /\ UNCHANGED << pidFile, ctxCancelled, result, sigReceived, doneClosed, outcome, log,
                    sigDelivered >>
    /\ UNCHANGED frozenVars
    /\ UNCHANGED configVars
    /\ UNCHANGED restVars
    /\ UNCHANGED callVars
    /\ UNCHANGED outsideVars

\* a buggy variant of CloseTask: a closer only finishes while no other closer has
\* failed or hung
CloseTask_sequential(k, r) ==
    /\ pc \in {"select", "removePid"}
    /\ closeState[k] = "running"
    /\ \A j \in DOMAIN closeState : closeState[j] \notin {"err", "hung"}
    /\ closeState' = [closeState EXCEPT ![k] = r]
    /\ log' = log \cup {IF r = "nil" THEN <<"service closed", k>>
                                     ELSE <<"failed to close service", k>>}
    /\ events' = [events EXCEPT ![closers[k]] = Append(@, "CloseReturn")]
    /\ UNCHANGED << pidFile, pc, ctxCancelled, result, sigReceived, doneClosed, outcome,
                    timer, sigDelivered >>
    /\ UNCHANGED frozenVars
    /\ UNCHANGED configVars
    /\ UNCHANGED restVars
    /\ UNCHANGED callVars
    /\ UNCHANGED outsideVars

\* the closer task of key k, lines 226-233: Close returns r (nil or an error) and the
\* task logs it
CloseTask(k, r) ==
    /\ pc \in {"select", "removePid"}
    /\ closeState[k] = "running"
    /\ closeState' = [closeState EXCEPT ![k] = r]
    /\ log' = log \cup {IF r = "nil" THEN <<"service closed", k>>
                                     ELSE <<"failed to close service", k>>}
    /\ events' = [events EXCEPT ![closers[k]] = Append(@, "CloseReturn")]
    /\ UNCHANGED << pidFile, pc, ctxCancelled, result, sigReceived, doneClosed, outcome,
                    timer, sigDelivered >>
    /\ UNCHANGED frozenVars
    /\ UNCHANGED configVars
    /\ UNCHANGED restVars
    /\ UNCHANGED callVars
    /\ UNCHANGED outsideVars

CloseReturn == \E k \in DOMAIN closeState, r \in {"nil", "err"} : CloseTask(k, r)

\* a Close that never returns
CloseHang ==
    /\ pc \in {"select", "removePid"}
    /\ \E k \in DOMAIN closeState :
         /\ closeState[k] = "running"
         /\ closeState' = [closeState EXCEPT ![k] = "hung"]
    /\ UNCHANGED << pidFile, pc, events, ctxCancelled, result, sigReceived, doneClosed,
                    outcome, log, timer, sigDelivered >>
    /\ UNCHANGED frozenVars
    /\ UNCHANGED configVars
    /\ UNCHANGED restVars
    /\ UNCHANGED callVars
    /\ UNCHANGED outsideVars

\* a buggy variant of WaitGroupDone: done is closed as soon as one closer is done
WaitGroupDone_any ==
    /\ pc \in {"select", "removePid"}
    /\ ~doneClosed
    /\ \E k \in DOMAIN closeState : closeState[k] \in {"nil", "err"}
    /\ doneClosed' = TRUE
    /\ UNCHANGED << pidFile, pc, events, ctxCancelled, result, sigReceived, closeState,
                    outcome, log, timer, sigDelivered >>
    /\ UNCHANGED frozenVars
    /\ UNCHANGED configVars
    /\ UNCHANGED restVars
    /\ UNCHANGED callVars
    /\ UNCHANGED outsideVars

\* lines 236-238: wg.Wait() returns once every closer task is done; close(done)
WaitGroupDone ==
    /\ pc \in {"select", "removePid"}
    /\ ~doneClosed
    /\ \A k \in DOMAIN closeState : closeState[k] \in {"nil", "err"}
    /\ doneClosed' = TRUE
    /\ UNCHANGED << pidFile, pc, events, ctxCancelled, result, sigReceived, closeState,
                    outcome, log, timer, sigDelivered >>
    /\ UNCHANGED frozenVars
    /\ UNCHANGED configVars
    /\ UNCHANGED restVars
    /\ UNCHANGED callVars
    /\ UNCHANGED outsideVars

\* time.After(5 * time.Second), line 243: the timer fires
TimerFire ==
    /\ pc = "select"
    /\ timer = "armed"
    /\ timer' = "fired"
    /\ UNCHANGED << pidFile, pc, events, ctxCancelled, result, sigReceived, closeState,
                    doneClosed, outcome, log, sigDelivered >>
    /\ UNCHANGED frozenVars
    /\ UNCHANGED configVars
    /\ UNCHANGED restVars
    /\ UNCHANGED callVars
    /\ UNCHANGED outsideVars

\* lines 246-248: the select takes the done channel
SelectDone ==
    /\ pc = "select"
    /\ doneClosed
    /\ ctxCancelled' = TRUE
    /\ outcome' = "graceful"
    /\ log' = log \cup {<<"all services closed gracefully", "">>}
    /\ pc' = "removePid"
    /\ UNCHANGED << pidFile, events, result, sigReceived, closeState, doneClosed,
                    timer, sigDelivered >>
    /\ UNCHANGED frozenVars
    /\ UNCHANGED configVars
    /\ UNCHANGED restVars
    /\ UNCHANGED callVars
    /\ UNCHANGED outsideVars

\* a buggy variant of SelectTimeout: the select has no timer case
SelectTimeout_never ==
    /\ FALSE
    /\ UNCHANGED vars

\* lines 243-245: the select takes the 5 second timer
SelectTimeout ==
    /\ pc = "select"
    /\ timer = "fired"
    /\ ctxCancelled' = TRUE
    /\ outcome' = "forced"
    /\ log' = log \cup {<<"timeout, all services closed forcefully", "">>}
    /\ pc' = "removePid"
    /\ UNCHANGED << pidFile, events, result, sigReceived, closeState, doneClosed,
                    timer, sigDelivered >>
    /\ UNCHANGED frozenVars
    /\ UNCHANGED configVars
    /\ UNCHANGED restVars
    /\ UNCHANGED callVars
    /\ UNCHANGED outsideVars

\* a buggy variant of RemovePID: a failed Close becomes the result of the command
RemovePID_closeError ==
    /\ pc = "removePid"
    /\ LET r == RemovePIDFile(pidFile)
       IN  /\ pidFile' = r.file
           /\ result' = IF \E k \in DOMAIN closeState : closeState[k] = "err"
                           THEN NewErr("Close", "") ELSE r.err
    /\ pc' = "returned"
    /\ UNCHANGED << events, ctxCancelled, sigReceived, closeState, doneClosed, outcome, log,
                    timer, sigDelivered >>
    /\ UNCHANGED frozenVars
    /\ UNCHANGED configVars
    /\ UNCHANGED restVars
    /\ UNCHANGED callVars
    /\ UNCHANGED outsideVars

\* waitForShutdownSignal lines 191-199: the lock file is removed and the command returns
RemovePID ==
    /\ pc = "removePid"
    /\ LET r == RemovePIDFile(pidFile)
       IN  /\ pidFile' = r.file
           /\ result' = r.err
    /\ pc' = "returned"
    /\ UNCHANGED << events, ctxCancelled, sigReceived, closeState, doneClosed, outcome, log,
                    timer, sigDelivered >>
    /\ UNCHANGED frozenVars
    /\ UNCHANGED configVars
    /\ UNCHANGED restVars
    /\ UNCHANGED callVars
    /\ UNCHANGED outsideVars

\* ---------------------------------------------------------- specifications
\* the server command: startup, serving, shutdown
Next ==
    \/ CheckRunningInstance
    \/ LoadConfigFile
    \/ InitServicesStep
    \/ StartMoLingServer
    \/ ServeReturn
    \/ ParentExit
    \/ MonitorParentProcess
    \/ ReceiveSignal
    \/ ShutdownStart
    \/ CloseReturn
    \/ CloseHang
    \/ WaitGroupDone
    \/ TimerFire
    \/ SelectDone
    \/ SelectTimeout
    \/ RemovePID

Spec == Init /\ [][Next]_vars

\* the server command up to serving, with providers that go on adding capabilities
\* after their Init has returned
InitAdapter ==
    /\ Init
    /\ parent = "alive"
    /\ configFile.state = "missing"
    /\ pidFile = "absent"

NextAdapter ==
    \/ CheckRunningInstance
    \/ LoadConfigFile
    \/ InitServicesStep
    \/ StartMoLingServer
    \/ AddResource
    \/ AddResourceTemplate
    \/ AddPrompt
    \/ AddTool
    \/ AddNotificationHandler

SpecAdapter == InitAdapter /\ [][NextAdapter]_vars

\* specification of the registry during process bootstrap
InitRegistry ==
    /\ InitCommon
    /\ nameOf = BuiltinNames
    /\ bcfg = NewBrowserConfig
    /\ parent = "alive"
    /\ serviceLists = EmptyMap
    /\ Module = ModuleFlagDefault
    /\ configFile = ConfigDoc("missing", EmptyMap)
    /\ pidFile = "absent"

NextRegistry == \E n \in ServiceNames, f \in Factories : RegisterServ(n, f)

SpecRegistry == InitRegistry /\ [][NextRegistry]_vars

\* the server command with the scheduling the runtime guarantees: the main task is
\* never starved and the 5 second timer fires
LiveSpec ==
    /\ Spec
    /\ WF_vars(ShutdownStart)
    /\ WF_vars(TimerFire)
    /\ WF_vars(SelectTimeout)
    /\ WF_vars(RemovePID)

\* ================================================================= claims
Invoked(n, op) == op \in Range(events[n])

\* the provider names a module-selection string lists
Selected(module) == {n \in ServiceNames : <<n>> \in Range(Split(module, Comma))}

\* the configuration document on disk holds no object-valued section for n
NoSection(n) ==
    \/ configFile.state # "ok"
    \/ n \notin DOMAIN configFile.doc
    \/ configFile.doc[n].t # "map"

C2_ErrorUnchanged ==
    (pc = "returned" /\ failedAt # "" /\ initErr.kind = "Init") => result = initErr

\* C2 (amended): when a provider's Init fails, mlsCommandFunc returns the error
\* initSingleService built from it, "failed to initialize service <name>: <text>", and
\* nothing is put around that error on the way up.
C2_ErrorWrappedOnce ==
    (pc = "returned" /\ failedAt # "" /\ initErr.kind = "Init") =>
        /\ result = Errorf("failed to initialize service", initErr)
        /\ result.by = failedAt
        /\ result # initErr

\* C2 witness: startup was aborted by a failing Init
C2_Witness ==
    /\ pc = "returned"
    /\ failedAt # ""
    /\ initErr.kind = "Init"

\* C3: shutdown is bounded.  After a shutdown signal the command always returns, with
\* the shared context cancelled and the lock file removed, whether or not every Close
\* returns.
C3_ShutdownBounded ==
    sigReceived ~> (pc = "returned" /\ ctxCancelled /\ pidFile = "absent" /\ outcome # "")

\* C3 witness: the command returned on the deadline while a Close was hanging
C3_Witness ==
    /\ pc = "returned"
    /\ outcome = "forced"
    /\ ctxCancelled
    /\ pidFile = "absent"
    /\ \E k \in DOMAIN closeState : closeState[k] = "hung"

\* C4: shutdown is isolating.  Once shutdown has started Close has been invoked on
\* every provider that has a closer; a running Close can return whatever the other
\* providers' Close did; and a Close that returned nil is logged as closed, never as
\* failed.
C4_ShutdownIsolating ==
    /\ pc \in {"select", "removePid", "returned"} =>
          /\ DOMAIN closeState = DOMAIN closers
          /\ \A k \in DOMAIN closers : Invoked(closers[k], "Close")
    /\ \A k \in DOMAIN closeState :
          /\ (closeState[k] = "running" /\ pc \in {"select", "removePid"}) =>
                ENABLED CloseTask(k, "nil")
          /\ closeState[k] = "nil" =>
                /\ <<"service closed", k>> \in log
                /\ <<"failed to close service", k>> \notin log
          /\ <<"failed to close service", k>> \in log => closeState[k] = "err"

\* C4 witness: one provider's Close failed, another one's never returned, and a third
\* one's returned nil and was logged as closed
C4_Witness ==
    \E a, b, c \in DOMAIN closeState :
        /\ closeState[a] = "err"
        /\ closeState[b] = "hung"
        /\ closeState[c] = "nil"
        /\ <<"service closed", c>> \in log

\* C5 (as claimed): with a module selection that lists provider names, only the
\* listed providers of the registry are ever constructed, and after a successful
\* startup exactly those have been constructed, initialized, adapted and given a closer.
C5_SelectionByNameList ==
    Module # ModuleFlagDefault =>
        /\ \A n \in ServiceNames :
              Invoked(n, "factory") => n \in (DOMAIN serviceLists) \cap Selected(Module)
        /\ pc = "waiting" =>
              /\ {n \in ServiceNames : Invoked(n, "Init")}
                    = (DOMAIN serviceLists) \cap Selected(Module)
              /\ {n \in ServiceNames : Invoked(n, "loadService")}
                    = (DOMAIN serviceLists) \cap Selected(Module)
              /\ {closers[k] : k \in DOMAIN closers}
                    = (DOMAIN serviceLists) \cap Selected(Module)

\* C6 (as claimed): with the sentinel "all", the default of the --module flag, every
\* provider of the registry has been instantiated and initialized once startup is over.
C6_SentinelAll ==
    (Module = ModuleFlagDefault /\ pc = "waiting") =>
        \A n \in DOMAIN serviceLists : Invoked(n, "factory") /\ Invoked(n, "Init")

\* C7: LoadConfig is never invoked on a provider without a configuration section; the
\* Browser provider is then initialized with the configuration its constructor made,
\* and that configuration passes Check.
C7_NoSectionDefaults ==
    \A n \in ServiceNames :
        NoSection(n) =>
            /\ ~Invoked(n, "LoadConfig")
            /\ (n = "Browser" /\ Invoked(n, "Init")) =>
                  /\ bcfg = NewBrowserServerConfig
                  /\ Check(bcfg).err = NilErr

\* C7 witness: the Browser provider was initialized although the configuration
\* document exists and has a value, but no object, under its name
C7_Witness ==
    /\ Invoked("Browser", "Init")
    /\ configFile.state = "ok"
    /\ "Browser" \in DOMAIN configFile.doc
    /\ NoSection("Browser")

RECURSIVE LastWriter(_, _)
\* the factory of the last registration of name n in a list of RegisterServ calls
LastWriter(calls, n) ==
    IF calls[Len(calls)][1] = n THEN calls[Len(calls)][2]
    ELSE LastWriter(SubSeq(calls, 1, Len(calls) - 1), n)

\* C8: the registry holds exactly one entry for every name ever registered, and it is
\* the factory of the latest registration of that name.
C8_LastWriterWins ==
    /\ DOMAIN ServiceList = {regLog[i][1] : i \in DOMAIN regLog}
    /\ \A n \in DOMAIN ServiceList : ServiceList[n] = LastWriter(regLog, n)

\* C8 witness: a name was registered twice with different factories, and another
\* name before that
C8_Witness ==
    \E i, j, k \in DOMAIN regLog :
        /\ i < j
        /\ regLog[i][1] = regLog[j][1]
        /\ regLog[i][2] # regLog[j][2]
        /\ k < j
        /\ regLog[k][1] # regLog[j][1]

CapKinds == {"resources", "templates", "tools", "notifications", "prompts"}

\* the names of a provider's capabilities of one kind
CapNames(c, kind) ==
    IF kind \in {"tools", "prompts"}
      THEN {c[kind][i].name : i \in DOMAIN c[kind]}
      ELSE DOMAIN c[kind]

\* C9: capabilities are frozen at adaptation.  The endpoint's tables hold what the
\* adapted providers held when NewMoLingServer ran, and no later add-operation on a
\* provider changes them.
C9_CapabilityFreezing ==
    /\ [][epCreated => endpoint' = endpoint]_vars
    /\ [][(~epCreated /\ epCreated') =>
            \A kind \in CapKinds :
                DOMAIN endpoint'[kind]
                    = UNION {CapNames(caps[n], kind) : n \in Range(servicesList)}]_vars

\* C9 witness: after adaptation a provider holds a capability the endpoint lacks
C9_Witness ==
    /\ epCreated
    /\ \E n \in Range(servicesList), kind \in CapKinds :
          /\ LateEntry.name \in CapNames(caps[n], kind)
          /\ LateEntry.name \notin DOMAIN endpoint[kind]

\* the closers whose Close has returned
Returned == {k \in DOMAIN closeState : closeState[k] \in {"nil", "err"}}

\* C11: shutdown outcome labelling.  The shutdown is reported graceful only when a
\* Close was issued for every closer and every one of them has returned, and it is
\* reported forced only when the 5 second timer has fired.
C11_OutcomeLabelling ==
    /\ outcome = "graceful" =>
          /\ DOMAIN closeState = DOMAIN closers
          /\ Returned = DOMAIN closers
          /\ <<"all services closed gracefully", "">> \in log
    /\ outcome = "forced" =>
          /\ timer = "fired"
          /\ <<"timeout, all services closed forcefully", "">> \in log
    /\ <<"all services closed gracefully", "">> \in log => outcome = "graceful"

\* C11 witness: a graceful report with two closers, one of which returned an error
C11_Witness ==
    /\ outcome = "graceful"
    /\ Cardinality(DOMAIN closeState) >= 2
    /\ \E k \in DOMAIN closeState : closeState[k] = "err"

\* the log lines that name closer k as not having completed
IncompleteLines(k) ==
    {l \in log : l[2] = k /\ l[1] \notin {"service closed", "failed to close service"}}

\* C12: forced-path logging.  After a forced shutdown every closer whose Close has
\* not returned is named in the shutdown log as incomplete, and no closer whose
\* Close has returned is.
C12_IncompleteLogged ==
    outcome = "forced" =>
        \A k \in DOMAIN closeState :
            /\ k \notin Returned => IncompleteLines(k) # {}
            /\ k \in Returned => IncompleteLines(k) = {}

\* C13: terminal sequence.  After a signal the lock file is not removed before the
\* shared context is cancelled, the context is not cancelled before the wait has
\* ended (done closed or timer fired), and the command returns only after both.
C13_TerminalSequence ==
    sigReceived =>
        /\ pidFile = "absent" => ctxCancelled
        /\ ctxCancelled => (doneClosed \/ timer = "fired")
        /\ ctxCancelled => outcome # ""
        /\ pc = "returned" => (ctxCancelled /\ pidFile = "absent")

\* C13 witness: the forced path has run to its end
C13_Witness ==
    /\ pc = "returned"
    /\ outcome = "forced"
    /\ ~doneClosed
    /\ pidFile = "absent"

\* C14: shutdown errors are non-fatal.  Once the command has returned after a signal,
\* its result is the result of removing the lock file, whatever the closers returned;
\* the context is cancelled and the lock file removed.
C14_ShutdownErrorsNonFatal ==
    (sigReceived /\ pc = "returned") =>
        /\ result = RemovePIDFile("mine").err
        /\ result = NilErr
        /\ ctxCancelled
        /\ pidFile = "absent"

\* C14 witness: the command returned although one Close failed
C14_Witness ==
    /\ sigReceived
    /\ pc = "returned"
    /\ \E k \in DOMAIN closeState : closeState[k] = "err"
    /\ result = NilErr

\* ------------------------------------ a stand-alone Browser configuration
Num(n) == JSONValue("float64", n, "")

Str(x) == JSONValue("string", 0, x)

\* decoded configuration sections explored
ConfigMaps ==
    { EmptyMap,
      "timeout" :> Num(0),
      "timeout" :> Num(60),
      "url_timeout" :> Num(0),
      "selector_query_timeout" :> Num(0),
      "prompt_file" :> Str("ok.txt"),
      "prompt_file" :> Str("missing.txt"),
      "prompt_file" :> Str(""),
      "headless" :> JSONValue("bool", 1, ""),
      "timeout" :> Str("abc") @@ "url_timeout" :> Num(5),
      "unknown_key" :> Num(1) }

configFrame ==
    /\ UNCHANGED << serviceLists, regLog, Module, configFile, pidFile, pc, configJson,
                    remaining, servicesList, closers, events, caps, endpoint, epCreated,
                    serving, ctxCancelled, result, initErr, failedAt, lateAdds,
                    sigReceived, closeState, doneClosed, outcome, log, timer, parent,
                    sigDelivered, svcCtx, bsCancel >>
    /\ UNCHANGED outsideVars
    /\ UNCHANGED restVars
    /\ UNCHANGED callVars

\* BrowserServer.LoadConfig(m) on the provider
LoadConfigStep ==
    /\ \E m \in ConfigMaps : \E r \in LoadConfig(bcfg, m) :
         /\ bcfg' = r.cfg
         /\ cfgErr' = r.err
         /\ cfgArg' = m
    /\ cfgPrev' = bcfg
    /\ cfgOp' = "LoadConfig"
    /\ configFrame

\* the provider's Config() is parsed into a map and given to its LoadConfig
RoundTripStep ==
    /\ \E r \in LoadConfig(bcfg, Unmarshal(Config(bcfg))) :
         /\ bcfg' = r.cfg
         /\ cfgErr' = r.err
    /\ cfgArg' = Unmarshal(Config(bcfg))
    /\ cfgPrev' = bcfg
    /\ cfgOp' = "RoundTrip"
    /\ configFrame

\* a provider fresh from its constructor
InitConfig ==
    /\ InitCommon
    /\ nameOf = BuiltinNames
    /\ bcfg \in {NewBrowserConfig, NewBrowserServerConfig}
    /\ parent = "alive"
    /\ serviceLists = EmptyMap
    /\ Module = ModuleFlagDefault
    /\ configFile = ConfigDoc("missing", EmptyMap)
    /\ pidFile = "absent"

NextConfig ==
    \/ LoadConfigStep
    \/ RoundTripStep

SpecConfig == InitConfig /\ [][NextConfig]_vars

C18_SingleInstance ==
    /\ pidFile = "other" =>
          /\ pc \in {"start", "returned"}
          /\ pc = "returned" => result # NilErr
          /\ configJson.isNil
          /\ \A n \in ServiceNames : events[n] = <<>>
    /\ pc \in {"loadConfigFile", "initServices", "waiting", "select", "removePid"} =>
          pidFile = "mine"
    /\ (\E n \in ServiceNames : events[n] # <<>>) =>
          (pidFile = "mine" \/ (pc = "returned" /\ sigReceived))
    /\ pidFile = "absent" => (pc = "start" \/ (pc = "returned" /\ sigReceived))
    /\ (pc = "returned" /\ sigReceived) => pidFile = "absent"

\* C18 witness: the command returned because another instance holds the lock file
C18_Witness ==
    /\ pidFile = "other"
    /\ pc = "returned"
    /\ result = CreatePIDFile("other").err
    /\ serviceLists # EmptyMap

\* the shutdown sequence has begun: a Close was issued, the wait ended or the lock
\* file was removed
ShutdownBegun ==
    \/ pc \in {"select", "removePid"}
    \/ closeState # EmptyMap
    \/ \E n \in ServiceNames : "Close" \in Range(events[n])
    \/ outcome # ""
    \/ (pidFile = "absent" /\ pc # "start")

\* C19: shutdown trigger.  The shutdown sequence begins only after a signal was
\* delivered or the parent process disappeared: while no signal is delivered and
\* the parent stays alive no provider is closed and the lock file is not removed.
C19_ShutdownTrigger ==
    ShutdownBegun => (sigDelivered \/ parent = "gone")

\* the merge of map m fails: a key of a field holds a value of another type
MergeFails(m) ==
    \E k \in (DOMAIN m) \cap (DOMAIN BrowserConfigFields) :
        ~Convertible(m[k], BrowserConfigFields[k].kind)

\* configuration c violates the validation rules of the Browser provider
Invalid(c) ==
    \/ c.Timeout <= 0
    \/ c.URLTimeout <= 0
    \/ c.SelectorQueryTimeout <= 0
    \/ (c.PromptFile # "" /\ c.PromptFile \notin ReadableFiles)

\* C17: LoadConfig merges, then validates.  LoadConfig(m) returns an error exactly
\* when the merge fails or the merged configuration violates validation; after a
\* successful merge every field with a key in m holds the map's value and every
\* other field its former value; with an empty map no field changes and validation
\* still runs.
C17_MergeThenValidate ==
    cfgOp = "LoadConfig" =>
        /\ MergeFails(cfgArg) => cfgErr # NilErr
        /\ ~MergeFails(cfgArg) =>
              /\ (cfgErr # NilErr) <=> Invalid(bcfg)
              /\ \A tag \in DOMAIN BrowserConfigFields :
                    LET f == BrowserConfigFields[tag]
                    IN  bcfg[f.name] = IF tag \in DOMAIN cfgArg
                                         THEN ConvertValue(cfgArg[tag], f.kind)
                                         ELSE cfgPrev[f.name]
              /\ bcfg.prompt # ""
        /\ cfgArg = EmptyMap => ((cfgErr # NilErr) <=> Invalid(cfgPrev))

\* C17 witness: an empty map was loaded onto a configuration that violates
\* validation, and the error was returned
C17_Witness ==
    /\ cfgOp = "LoadConfig"
    /\ cfgArg = EmptyMap
    /\ Invalid(cfgPrev)
    /\ cfgErr # NilErr

\* ------------------------------------- a stand-alone Browser provider
\* what the operations of a stand-alone provider leave alone
providerFrame ==
    /\ UNCHANGED << serviceLists, regLog, Module, configFile, pidFile, pc, configJson,
                    remaining, servicesList, closers, bcfg, caps, endpoint, epCreated,
                    serving, ctxCancelled, result, initErr, failedAt, lateAdds,
                    sigReceived, closeState, doneClosed, outcome, log, timer, parent,
                    sigDelivered, hasConfig, fileAtStart, configData >>
    /\ UNCHANGED configVars
    /\ UNCHANGED restVars
    /\ UNCHANGED callVars

\* the process is alive and the bound on calls is not reached
CanCall ==
    /\ closeResult # "panic"
    /\ Len(events["Browser"]) < MaxCalls

\* NewBrowserServer(ctx), browser.go lines 56-82
NewBrowserServer ==
    /\ svcCtx["Browser"] = "none"
    /\ svcCtx' = [svcCtx EXCEPT !["Browser"] = "shared"]
    /\ events' = [events EXCEPT !["Browser"] = Append(@, "factory")]
    /\ UNCHANGED << bsCancel, closeResult >>
    /\ providerFrame

\* Init() on the provider
BrowserInit ==
    /\ svcCtx["Browser"] # "none"
    /\ CanCall
    /\ \E iErr \in {NilErr, NewErr("failed to initialize browser", "Browser"),
                     NewErr("failed to create data directory", "Browser")} :
         LET r == BrowserServerInit(svcCtx["Browser"], bsCancel, iErr)
         IN  /\ svcCtx' = [svcCtx EXCEPT !["Browser"] = r.ctx]
             /\ bsCancel' = r.cancel
             /\ events' = [events EXCEPT !["Browser"] =
                              Append(@, IF iErr = NilErr THEN "Init" ELSE "InitFailed")]
    /\ UNCHANGED closeResult
    /\ providerFrame

\* BrowserServer.Close, lines 1056-1064: cancelAlloc() and cancelChrome() are called
\* (a nil function value panics), then chromedp.Cancel returns nil or an error
Close(cancel) ==
    IF cancel = "nil" THEN {"panic"} ELSE {"nil", "err"}

\* Close() on the provider
BrowserClose ==
    /\ svcCtx["Browser"] # "none"
    /\ CanCall
    /\ closeResult' \in Close(bsCancel)
    /\ events' = [events EXCEPT !["Browser"] = Append(@, "Close")]
    /\ UNCHANGED << svcCtx, bsCancel >>
    /\ providerFrame

\* LoadConfig(m) on the provider
BrowserLoadConfig ==
    /\ svcCtx["Browser"] # "none"
    /\ closeResult # "panic"
    /\ LoadConfigStep

\* a Browser provider used through its interface, in any order of calls
NextBrowser ==
    \/ NewBrowserServer
    \/ BrowserLoadConfig
    \/ BrowserInit
    \/ BrowserClose

SpecBrowser == InitConfig /\ [][NextBrowser]_vars

\* C15: Close is safe after a partial Init.  Close() on a Browser provider whose Init
\* has not run, or failed before the allocator and its cancel functions were made,
\* ends without a panic.
C15_CloseSafe ==
    closeResult # "panic"

\* C16: single cancellation authority.  The context a constructed provider returns
\* from Ctx() is the shared context it was constructed with or a descendant of it.
C16_SingleCancellationAuthority ==
    \A n \in ServiceNames : svcCtx[n] \in {"none", "shared"}

\* ------------------------------------------------ the config command
\* configuration files the config command may find: those of the server command and
\* one that exists but cannot be read
ConfigFilesFound ==
    ConfigFiles \cup
      { ConfigDoc("unreadable", "Browser" :> MapSection("timeout" :> Num(60))) }

\* os.ReadFile(configFilePath) returns an error
ReadFileFails(file) == file.state \in {"missing", "unreadable"}

\* what the actions of the config command leave alone
commandFrame ==
    /\ UNCHANGED << serviceLists, regLog, Module, pidFile, servicesList, closers, caps,
                    endpoint, epCreated, serving, ctxCancelled, initErr, failedAt,
                    lateAdds, sigReceived, closeState, doneClosed, outcome, log, timer,
                    parent, sigDelivered, closeResult >>
    /\ UNCHANGED configVars
    /\ UNCHANGED restVars
    /\ UNCHANGED callVars

\* ConfigCommandFunc lines 52-58 and 60-61: loadExistingConfig, then buildConfigData
\* opens the document with the global section (addGlobalConfig)
LoadExistingConfig ==
    /\ pc = "start"
    /\ fileAtStart' = configFile
    /\ IF ReadFileFails(configFile)
         THEN /\ hasConfig' = FALSE
              /\ configJson' = [isNil |-> TRUE, doc |-> EmptyMap]
              /\ result' = result
              /\ pc' = "buildConfigData"
         ELSE IF configFile.state = "badjson"
         THEN /\ hasConfig' = TRUE
              /\ configJson' = configJson
              /\ result' = Errorf("invalid JSON in config file", NewErr("json", ""))
              /\ pc' = "returned"
         ELSE /\ hasConfig' = TRUE
              /\ configJson' = [isNil |-> FALSE, doc |-> configFile.doc]
              /\ result' = result
              /\ pc' = "buildConfigData"
    /\ remaining' = IF pc' = "buildConfigData" THEN DOMAIN ServiceList ELSE remaining
    /\ configData' = IF pc' = "buildConfigData"
                       THEN "MoLingConfig" :> MapSection(EmptyMap) ELSE configData
    /\ UNCHANGED << configFile, events, bcfg, svcCtx, bsCancel >>
    /\ commandFrame

\* addServiceConfigs lines 138-152: one iteration of the loop over the registry
AddServiceConfig ==
    /\ pc = "buildConfigData"
    /\ \E n \in remaining :
         /\ remaining' = remaining \ {n}
         /\ \E fErr \in {NilErr, NewErr("factory", n)},
               iErr \in {NilErr, NewErr("Init", n)},
               lc \in LoadConfigResults(n, NewBrowserServerConfig,
                        IF HasSection(configJson, n)
                          THEN configJson.doc[n].m ELSE EmptyMap) :
              LET r == initSingleService(n, configJson, fErr, lc, iErr)
              IN  /\ events' = [events EXCEPT ![n] = @ \o r.ev]
                  /\ bcfg' = IF n = "Browser" /\ fErr = NilErr THEN r.cfg ELSE bcfg
                  /\ svcCtx' = [svcCtx EXCEPT
                                  ![n] = ProviderAfterInit(n, fErr, r.ev, iErr).ctx]
                  /\ bsCancel' = IF n = "Browser"
                                   THEN ProviderAfterInit(n, fErr, r.ev, iErr).cancel
                                   ELSE bsCancel
                  /\ IF r.err # NilErr
                       THEN /\ result' = r.err
                            /\ pc' = "returned"
                            /\ configData' = configData
                       ELSE /\ result' = result
                            /\ pc' = pc
                            /\ configData' =
                                 Put(configData, Name(n),
                                     MapSection(IF n = "Browser"
                                                  THEN Unmarshal(Config(r.cfg))
                                                  ELSE EmptyMap))
    /\ UNCHANGED << configFile, configJson, hasConfig, fileAtStart >>
    /\ commandFrame

\* formatConfigJson, lines 157-168: the generated text is parsed; with no provider
\* section the global section is followed by a comma and the closing brace
FormatFails(data) == DOMAIN data = {"MoLingConfig"}

\* ConfigCommandFunc lines 67-85: formatConfigJson, saveConfigIfNeeded, return.
\* os.WriteFile replaces the content of the file, or fails
SaveConfigIfNeeded ==
    /\ pc = "buildConfigData"
    /\ remaining = {}
    /\ pc' = "returned"
    /\ IF FormatFails(configData)
         THEN /\ result' = Errorf("Error unmarshaling JSON", NewErr("json", ""))
              /\ configFile' = configFile
         ELSE IF ~hasConfig
         THEN \E written \in BOOLEAN :
                IF written
                  THEN /\ configFile' = ConfigDoc("ok", configData)
                       /\ result' = NilErr
                  ELSE /\ configFile' = configFile
                       /\ result' = Errorf("Error writing configuration file",
                                           NewErr("write", ""))
         ELSE /\ configFile' = configFile
              /\ result' = NilErr
    /\ UNCHANGED << configJson, remaining, events, bcfg, svcCtx, bsCancel, hasConfig,
                    fileAtStart, configData >>
    /\ commandFrame

InitCommand ==
    /\ InitCommon
    /\ nameOf = BuiltinNames
    /\ bcfg = NewBrowserConfig
    /\ parent = "alive"
    /\ \E S \in SUBSET ServiceNames : serviceLists = [n \in S |-> "f1"]
    /\ Module = ModuleFlagDefault
    /\ configFile \in ConfigFilesFound
    /\ pidFile = "absent"

NextCommand ==
    \/ LoadExistingConfig
    \/ AddServiceConfig
    \/ SaveConfigIfNeeded

SpecCommand == InitCommand /\ [][NextCommand]_vars

\* C20: the config command never overwrites a configuration.  It writes the file
\* only when no file could be read at its start; a file that existed at the start,
\* valid JSON or not, has the same content afterwards.
C20_NeverOverwrites ==
    pc # "start" =>
        /\ configFile # fileAtStart => ~hasConfig
        /\ fileAtStart.state # "missing" => configFile = fileAtStart

\* the place of an operation in a provider's lifecycle
Rank(op) ==
    CASE op = "factory" -> 1
      [] op = "LoadConfig" -> 2
      [] op = "Init" -> 3
      [] op = "loadService" -> 4
      [] op = "Close" -> 5
      [] op = "CloseReturn" -> 6

\* C21: per-provider lifecycle order.  The operations on a provider occur only in the
\* order factory, (optional) LoadConfig, Init, adaptation by loadService, Close
\* issued, Close returned: each comes after all of an earlier rank and none occurs
\* twice; a provider is adapted only after its Init returned without error, and
\* Close is issued only on an adapted provider; the history only grows.
C21_LifecycleOrder ==
    /\ [](\A n \in ServiceNames :
            /\ \A i, j \in DOMAIN events[n] :
                 i < j => Rank(events[n][i]) < Rank(events[n][j])
            /\ events[n] # <<>> => events[n][1] = "factory"
            /\ Invoked(n, "loadService") =>
                  (Invoked(n, "Init") /\ n \in Range(servicesList))
            /\ Invoked(n, "Close") => Invoked(n, "loadService")
            /\ Invoked(n, "CloseReturn") => Invoked(n, "Close"))
    /\ [][\A n \in ServiceNames :
            /\ Len(events'[n]) >= Len(events[n])
            /\ SubSeq(events'[n], 1, Len(events[n])) = events[n]]_vars

\* C21 witness: a provider has gone through every step, LoadConfig included
C21_Witness ==
    \E n \in ServiceNames :
        events[n] = <<"factory", "LoadConfig", "Init", "loadService", "Close", "CloseReturn">>

\* how many times op was invoked on the provider registered as n
Count(n, op) == Cardinality({i \in DOMAIN events[n] : events[n][i] = op})

\* C22: at most once.  In a run of the server the factory, Init and Close of a
\* provider are each invoked at most once, and Close is invoked only on providers
\* whose Init returned without error (those of the active list).
C22_AtMostOnce ==
    \A n \in ServiceNames :
        /\ Count(n, "factory") <= 1
        /\ Count(n, "Init") <= 1
        /\ Count(n, "Close") <= 1
        /\ Invoked(n, "Close") => (Invoked(n, "Init") /\ n \in Range(servicesList))

\* C22 witness: shutdown has issued Close on two initialized providers while a
\* registered provider that was not selected has seen no operation
C22_Witness ==
    /\ \E n, m \in ServiceNames : n # m /\ Invoked(n, "Close") /\ Invoked(m, "Close")
    /\ \E n \in DOMAIN serviceLists : events[n] = <<>>

\* the registered providers the loop of initServices does not skip
LoopSelected == {n \in DOMAIN serviceLists : ~SkipModule(n, Module)}

MapKinds == {"resources", "templates", "notifications"}

\* what a task holds after an accessor has returned: for a map the provider's own
\* map (the accessor returns the reference, no copy), for a slice the header read
\* under the lock, i.e. the first len elements of the backing array
ReaderView(c, r) ==
    IF r.kind \in MapKinds
      THEN c[r.n][r.kind]
      ELSE SubSeq(c[r.n][r.kind], 1, r.len)

readFrame ==
    /\ UNCHANGED << serviceLists, regLog, Module, configFile, pidFile, pc, lateAdds, result >>
    /\ UNCHANGED startupVars
    /\ UNCHANGED shutdownVars
    /\ UNCHANGED configVars
    /\ UNCHANGED nameOf
    /\ UNCHANGED callVars
    /\ UNCHANGED outsideVars

\* loadService: an accessor is called (it takes the lock, reads the field, releases
\* the lock and returns) and the range loop over the returned collection begins
ReadBegin ==
    /\ reading = NoRead
    /\ \E n \in Range(servicesList), kind \in CapKinds :
          reading' = [n |-> n, kind |-> kind,
                      len |-> IF kind \in MapKinds THEN 0 ELSE Len(caps[n][kind])]
    /\ readFrame

\* loadService: the range loop over the returned collection ends
ReadEnd ==
    /\ reading # NoRead
    /\ reading' = NoRead
    /\ readFrame

NextConcurrent ==
    \/ CheckRunningInstance
    \/ LoadConfigFile
    \/ InitServicesStep
    \/ AddResource
    \/ AddResourceTemplate
    \/ AddPrompt
    \/ AddTool
    \/ AddNotificationHandler
    \/ ReadBegin
    \/ ReadEnd

SpecConcurrent == InitAdapter /\ [][NextConcurrent]_vars

\* C24 (as claimed): the collections of a provider are protected against concurrent
\* read and append.  While a task iterates over a collection an accessor returned,
\* no step changes what that task iterates over.
C24_NoMutationWhileRead ==
    [][reading # NoRead => ReaderView(caps', reading) = ReaderView(caps, reading)]_vars

\* the names given, in order, to the calls of add-operation op among calls
CalledNames(calls, op) ==
    LET sel == SelectSeq(calls, LAMBDA c : c[1] = op)
    IN  [i \in DOMAIN sel |-> sel[i][2]]

\* C25: registration order is preserved when exposed.  For every adapted provider
\* the tools passed to the endpoint's AddTools and the prompts passed to its
\* AddPrompt are exactly the names the provider had given to AddTool and to
\* AddPrompt by then, in the order of those calls.
C25_OrderPreserved ==
    epCreated =>
        \A n \in Range(servicesList) :
            LET before == SubSeq(addCalls[n], 1, epCalls[n].at)
            IN  /\ epCalls[n].tools = CalledNames(before, "AddTool")
                /\ epCalls[n].prompts = CalledNames(before, "AddPrompt")

\* C25 witness: an adapted provider had added a tool and a prompt after its Init,
\* between other add-operations, and added more after the adaptation
C25_Witness ==
    /\ epCreated
    /\ \E n \in Range(servicesList) :
          /\ Len(epCalls[n].tools) > 2
          /\ epCalls[n].tools[Len(epCalls[n].tools)] = LateEntry.name
          /\ epCalls[n].tools[1] # LateEntry.name
          /\ Len(addCalls[n]) > epCalls[n].at

\* ------------------------------------- providers that share a Name()
\* Command and FileSystem stand for providers that embed MLService and keep its
\* Name(), which returns "MLService"
EmbeddedNames == [n \in ServiceNames |-> IF n = "Browser" THEN n ELSE "MLService"]

InitNames ==
    /\ InitCommon
    /\ nameOf \in {BuiltinNames, EmbeddedNames}
    /\ bcfg = NewBrowserConfig
    /\ parent = "alive"
    /\ \E S \in SUBSET ServiceNames : serviceLists = [n \in S |-> "f1"]
    /\ Module \in ModuleStrings
    /\ configFile = ConfigDoc("missing", EmptyMap)
    /\ pidFile = "absent"

SpecNames == InitNames /\ [][Next]_vars

StartupAborted ==
    /\ pc = "returned"
    /\ ~epCreated
    /\ pidFile # "other"

\* C27 (as claimed): whenever startup aborts after the lock file was created,
\* mlsCommandFunc has cancelled the shared context, returns the error and leaves the
\* lock file in place.
C27_AbortCancelsAndKeepsLock ==
    StartupAborted =>
        /\ ctxCancelled
        /\ result # NilErr
        /\ pidFile = "mine"

\* C27 (amended): the lock file is removed only on the signal-triggered shutdown
\* path.  Whenever startup aborts after the lock file was created, the error is
\* returned and the lock file is left in place; the shared context is cancelled when
\* a provider failed, while for an unparsable configuration file the command
\* returns before the shared context exists and nothing is cancelled.
C27_LockKeptOnAbort ==
    /\ [](StartupAborted =>
            /\ result # NilErr
            /\ pidFile = "mine"
            /\ ctxCancelled <=> failedAt # ""
            /\ failedAt = "" <=> configFile.state = "badjson")
    /\ [][(pidFile = "mine" /\ pidFile' # "mine") => (sigReceived /\ pc = "removePid")]_vars

\* C27 witness: the configuration file could not be parsed; the command has returned
\* with the lock file in place and no context cancelled
C27_Witness ==
    /\ StartupAborted
    /\ configFile.state = "badjson"
    /\ pidFile = "mine"
    /\ ~ctxCancelled

\* C28: no Close on an aborted startup.  When startup aborts because a provider
\* fails, initServices returns no closers, Close is invoked on no provider, those
\* initialized before included, and the shared context is cancelled.
C28_NoCloseOnAbort ==
    failedAt # "" =>
        /\ pc = "returned"
        /\ closers = EmptyMap
        /\ closeState = EmptyMap
        /\ \A n \in ServiceNames : ~Invoked(n, "Close")
        /\ ctxCancelled

\* C28 witness: two providers were initialized without error before a third failed
C28_Witness ==
    /\ failedAt # ""
    /\ \E a, b \in ServiceNames \ {failedAt} :
          /\ a # b
          /\ Invoked(a, "Init")
          /\ Invoked(b, "Init")
    /\ ctxCancelled

\* Serve has returned
ServeOver == epCreated /\ ~serving

handlePrompt(cfg) == cfg.prompt

\* C30 (as claimed): after a successful startup the Browser provider's prompt
\* handler never returns an empty prompt: with no prompt file configured it returns
\* the built-in default prompt, with a readable prompt file that file's content.
C30_PromptNeverEmpty ==
    (epCreated /\ Invoked("Browser", "loadService")) =>
        /\ handlePrompt(bcfg) # ""
        /\ bcfg.PromptFile = "" => handlePrompt(bcfg) = BrowserPromptDefault
        /\ bcfg.PromptFile \in ReadableFiles =>
              handlePrompt(bcfg) = FileContent(bcfg.PromptFile)

====
